---- MODULE Spec2Model ----
(***************************************************************************)
(* A model of ai_stock_analyzer.py: the quote fetcher get_stock_data with  *)
(* its per-field fallback chains, the formatter format_stock_summary with  *)
(* its colour rules, and the sequential loop of main over SECTOR_TICKERS.  *)
(*                                                                         *)
(* Numbers.  Prices are integers in cents, daily changes are integers in   *)
(* thousandths of a percent, and a float rounded to 2 decimals is a sign   *)
(* and a magnitude in hundredths (the sign is kept apart because Python    *)
(* prints a negative zero as "-0.0").  Strings the program parses again    *)
(* are sequences of one-character strings; fixed labels, tickers, names    *)
(* and escape codes are single tokens of such a sequence.                  *)
(***************************************************************************)
EXTENDS Integers, Sequences, FiniteSets

VARIABLES pc, sector, i, ticker, total_tickers, current_ticker_count,
          stock_name, current_price, year_high, drop_rate, daily_change,
          stock_data, result,
          calls, printed, sleeps, diag, attempts, threw, exc

vars == <<pc, sector, i, ticker, total_tickers, current_ticker_count,
          stock_name, current_price, year_high, drop_rate, daily_change,
          stock_data, result,
          calls, printed, sleeps, diag, attempts, threw, exc>>

(***************************************************************************)
(* Python values as the provider hands them over.                          *)
(***************************************************************************)
PyNone == [k |-> "none", v |-> 0]
PyNaN == [k |-> "nan", v |-> 0]
PyNum(n) == [k |-> "num", v |-> n]
\* a value that is neither a number nor None, such as the string "abc"
PyBad == [k |-> "str", v |-> 0]

\* Python's truth value: None, 0 and "" are false, NaN is true
Truthy(x) == CASE x.k = "none" -> FALSE
               [] x.k = "num" -> x.v # 0
               [] x.k = "text" -> x.v # ""
               [] OTHER -> TRUE

\* pd.isna on a scalar
IsNa(x) == x.k \in {"none", "nan"}

\* float(x) raises ValueError/TypeError on a non-numeric value
FloatRaises(x) == x.k \in {"none", "str"}

(***************************************************************************)
(* Text.                                                                   *)
(***************************************************************************)
NA == <<"N", "/", "A">>
DefaultDrop == <<"-", "0", ".", "0", "0", "%">>
DefaultDaily == <<"0", ".", "0", "0", "%">>
Digits == <<"0", "1", "2", "3", "4", "5", "6", "7", "8", "9">>
DigitSet == {Digits[d] : d \in 1..10}

Abs(n) == IF n < 0 THEN -n ELSE n

RECURSIVE NatStr(_)
\* the decimal digits of a natural number
NatStr(n) == IF n < 10 THEN <<Digits[n + 1]>>
             ELSE NatStr(n \div 10) \o <<Digits[(n % 10) + 1]>>

\* round-half-to-even of n/d, for n >= 0 and d > 0
RoundHalfEven(n, d) ==
    LET q == n \div d
        r == n % d
    IN  IF 2 * r < d THEN q
        ELSE IF 2 * r > d THEN q + 1
        ELSE IF q % 2 = 0 THEN q ELSE q + 1

\* round(x, 2) of x = n/d percent (d # 0): the sign of x and the magnitude in
\* hundredths
Round2(n, d) == [neg |-> (n < 0 /\ d > 0) \/ (n > 0 /\ d < 0),
                 mag |-> RoundHalfEven(Abs(n) * 100, Abs(d))]

\* str() of a float that round(_, 2) returned: at least one decimal, no
\* trailing zero beyond it
FloatStr(r) ==
    LET ip == r.mag \div 100
        fp == r.mag % 100
    IN  (IF r.neg THEN <<"-">> ELSE <<>>) \o NatStr(ip) \o <<".">> \o
        (IF fp % 10 = 0 THEN <<Digits[(fp \div 10) + 1]>>
         ELSE <<Digits[(fp \div 10) + 1], Digits[(fp % 10) + 1]>>)

\* f"{x:.2f}" of a price in cents, or of NaN
Fixed2(x) ==
    IF x.k = "nan" THEN <<"n", "a", "n">>
    ELSE (IF x.v < 0 THEN <<"-">> ELSE <<>>) \o NatStr(Abs(x.v) \div 100) \o
         <<".", Digits[((Abs(x.v) % 100) \div 10) + 1], Digits[(Abs(x.v) % 10) + 1]>>

\* s.replace(c, "")
Remove(s, c) == SelectSeq(s, LAMBDA ch : ch # c)

RECURSIVE DigitsVal(_)
\* the value of a sequence of digits and dots, the dots skipped
DigitsVal(s) ==
    IF s = <<>> THEN 0
    ELSE LET last == s[Len(s)]
             rest == SubSeq(s, 1, Len(s) - 1)
         IN  IF last = "." THEN DigitsVal(rest)
             ELSE DigitsVal(rest) * 10 + (CHOOSE d \in 0..9 : Digits[d + 1] = last)

RECURSIVE Pow10(_)
Pow10(n) == IF n = 0 THEN 1 ELSE 10 * Pow10(n - 1)

\* float(s) for a text of signs, digits and dots: an optional sign, then
\* digits with at most one dot and at least one digit; anything else raises
\* ValueError (ok = FALSE).  The value is (-1)^neg * mant / 10^scale.
PyFloat(s) ==
    LET signed == s # <<>> /\ s[1] \in {"-", "+"}
        body == IF signed THEN SubSeq(s, 2, Len(s)) ELSE s
        dots == {p \in 1..Len(body) : body[p] = "."}
        wellFormed == /\ \A p \in 1..Len(body) : body[p] \in DigitSet \cup {"."}
                      /\ Cardinality(dots) <= 1
                      /\ \E p \in 1..Len(body) : body[p] \in DigitSet
    IN  IF ~wellFormed THEN [ok |-> FALSE, neg |-> FALSE, mant |-> 0, scale |-> 0]
        ELSE [ok |-> TRUE,
              neg |-> signed /\ s[1] = "-",
              mant |-> DigitsVal(body),
              scale |-> IF dots = {} THEN 0
                        ELSE Len(body) - (CHOOSE p \in dots : TRUE)]

(***************************************************************************)
(* The watchlist, in declaration order (a dict keeps insertion order).     *)
(***************************************************************************)
SECTOR_TICKERS == <<
    [name |-> "Technology",
     tickers |-> <<"AAPL", "MSFT", "GOOGL", "META", "NVDA", "ORCL", "AVGO", "AMD", "PLTR">>],
    [name |-> "Consumer & E-commerce", tickers |-> <<"AMZN", "TSLA", "WMT", "WM">>],
    [name |-> "Financial", tickers |-> <<"V", "BRK-B">>],
    [name |-> "Industrial & Infrastructure", tickers |-> <<"PAVE", "GEV">>],
    [name |-> "Aerospace & Defense", tickers |-> <<"RKLB">>],
    [name |-> "Cryptocurrency", tickers |-> <<"BITQ", "HOOD">>],
    [name |-> "Exchange Traded Funds",
     tickers |-> <<"QQQM", "IGV", "XSW", "XLF", "SCHD", "DGRW", "XLV", "MGK", "SPYV">>] >>

RECURSIVE SumLen(_)
\* sum(len(tickers) for tickers in SECTOR_TICKERS.values())
SumLen(n) == IF n = 0 THEN 0 ELSE SumLen(n - 1) + Len(SECTOR_TICKERS[n].tickers)

\* str(e)[:50]
DiagLimit == 50

(***************************************************************************)
(* What the provider may answer.  Every access answers on its own: it may  *)
(* raise, hand back nothing, or hand back any of the values below.         *)
(***************************************************************************)
\* how far beyond DiagLimit an error message may run
MaxErrExtra == 2

\* Amounts in cents and changes in thousandths of a percent.  None of the
\* rates they give falls on a rounding tie, where Python's binary floats and
\* exact arithmetic may part; they give the drawdowns 25.0, 10.0, 9.99, 0 < x
\* < 10 and negative ones, and the changes -3.2, -0.0, 0.0, 1.24 and 3.2.
Prices == {15000, 18000, 18002, 23000}
Highs == {20000, 30000, -100}
Changes == {-3200, -4, 0, 1236, 3200}

PyText(t) == [k |-> "text", v |-> t]
NameVals == {PyNone, PyNaN, PyText(""), PyText("Apple Inc.")}
FastPriceVals == {PyNone, PyNaN, PyBad, PyNum(0)} \cup {PyNum(p) : p \in Prices}
CloseVals == {PyNone, PyNaN, PyNum(0)} \cup {PyNum(p) : p \in Prices}
InfoCurrentVals == {PyNone, PyNaN, PyNum(0), PyNum(15000)}
InfoRegularVals == {PyNone, PyNaN, PyNum(18000)}
FastHighVals == {PyNone, PyNaN, PyBad, PyNum(0)} \cup {PyNum(h) : h \in Highs}
InfoHighVals == {PyNone, PyNaN, PyNum(0)} \cup {PyNum(h) : h \in Highs}
ChangeVals == {PyNone, PyNaN, PyBad} \cup {PyNum(c) : c \in Changes}

Throw == [k |-> "throw"]
\* stock.info is None or an empty dict
NoInfo == [k |-> "none"]
\* hasattr(stock, 'fast_info') or hasattr(stock.fast_info, <field>) is false
NoAttr == [k |-> "noattr"]
\* history() returned an empty frame, or one without a Close column
EmptyHist == [k |-> "empty"]
NoCloseCol == [k |-> "nocol"]

NameResps == {Throw, NoInfo} \cup {[k |-> "dict", shortName |-> n] : n \in NameVals}
FastPriceResps == {Throw, NoAttr} \cup {[k |-> "val", v |-> x] : x \in FastPriceVals}
HistResps == {Throw, EmptyHist, NoCloseCol} \cup {[k |-> "close", v |-> x] : x \in CloseVals}
InfoPriceResps == {Throw, NoInfo} \cup
    {[k |-> "dict", currentPrice |-> a, regularMarketPrice |-> b] :
        a \in InfoCurrentVals, b \in InfoRegularVals}
FastHighResps == {Throw, NoAttr} \cup {[k |-> "val", v |-> x] : x \in FastHighVals}
InfoHighResps == {Throw, NoInfo} \cup {[k |-> "dict", fiftyTwoWeekHigh |-> x] : x \in InfoHighVals}
InfoChangeResps == {Throw, NoInfo} \cup
    {[k |-> "dict", regularMarketChangePercent |-> x] : x \in ChangeVals}

\* an error message of n characters; its characters are told apart by position
ErrMsg(n) == [j \in 1..n |-> j]
ErrMsgs == {ErrMsg(n) : n \in 0..(DiagLimit + MaxErrExtra)}

(***************************************************************************)
(* get_stock_data, path by path.  A path hands back the value its try      *)
(* block leaves in the field, and whether an exception left the block      *)
(* (every block ends in a bare "except: pass", so none does).              *)
(***************************************************************************)
Caught(x) == [raised |-> FALSE, val |-> x]
Escaped(x) == [raised |-> TRUE, val |-> x]

\* "if price and not pd.isna(price): field = float(price)", the field None before
Validated(x) == IF Truthy(x) /\ ~IsNa(x) /\ ~FloatRaises(x) THEN x ELSE PyNone

NamePath(resp) ==
    IF resp.k = "dict" /\ Truthy(resp.shortName) /\ ~IsNa(resp.shortName)
    THEN Caught(resp.shortName.v)
    ELSE Caught("N/A")

\* the first price path without its "except: pass"
PricePath1Unguarded(resp) ==
    IF resp.k = "val" THEN Caught(Validated(resp.v))
    ELSE IF resp.k = "throw" THEN Escaped(PyNone) ELSE Caught(PyNone)

PricePath1(resp) ==
    IF resp.k = "val" THEN Caught(Validated(resp.v)) ELSE Caught(PyNone)

PricePath2(resp) ==
    IF resp.k = "close" /\ ~FloatRaises(resp.v) THEN Caught(resp.v) ELSE Caught(PyNone)

PricePath3(resp) ==
    IF resp.k = "dict"
    THEN Caught(Validated(IF Truthy(resp.currentPrice) THEN resp.currentPrice
                          ELSE resp.regularMarketPrice))
    ELSE Caught(PyNone)

HighPath1(resp) ==
    IF resp.k = "val" THEN Caught(Validated(resp.v)) ELSE Caught(PyNone)

HighPath2(resp) ==
    IF resp.k = "dict" THEN Caught(Validated(resp.fiftyTwoWeekHigh)) ELSE Caught(PyNone)

\* the drawdown computed without the test that the high is positive
DropRateAnyHigh(price, high) ==
    IF price # PyNone /\ high # PyNone /\ high.k = "num" /\ high.v # 0 /\ price.k = "num"
    THEN <<"-">> \o FloatStr(Round2((high.v - price.v) * 100, high.v)) \o <<"%">>
    ELSE NA

\* the drawdown string: "N/A" unless both numbers are there and the high is
\* positive; a NaN price makes the rate NaN, which is left as "N/A"
DropRate(price, high) ==
    IF price # PyNone /\ high # PyNone /\ high.k = "num" /\ high.v > 0 /\ price.k = "num"
    THEN <<"-">> \o FloatStr(Round2((high.v - price.v) * 100, high.v)) \o <<"%">>
    ELSE NA

DailyPath(resp) ==
    IF /\ resp.k = "dict"
       /\ resp.regularMarketChangePercent # PyNone
       /\ ~IsNa(resp.regularMarketChangePercent)
       /\ ~FloatRaises(resp.regularMarketChangePercent)
    THEN Caught(FloatStr(Round2(resp.regularMarketChangePercent.v, 1000)) \o <<"%">>)
    ELSE Caught(NA)

Record(name, price, high, drop, daily) ==
    [stock_name |-> name, current_price |-> price, year_high |-> high,
     drop_rate |-> drop, daily_change |-> daily]

\* the handler with a bare "raise" at its end
OuterExceptReraises(tk, e) ==
    [raised |-> TRUE,
     line |-> <<"  ", tk, " data collection failed: ",
                SubSeq(e, 1, IF Len(e) < DiagLimit THEN Len(e) ELSE DiagLimit), "...">>,
     data |-> Record("N/A", PyNone, PyNone, NA, NA)]

\* the handler printing str(e) whole
OuterExceptWholeMessage(tk, e) ==
    [raised |-> FALSE,
     line |-> <<"  ", tk, " data collection failed: ", e, "...">>,
     data |-> Record("N/A", PyNone, PyNone, NA, NA)]

\* the outer "except Exception as e": one diagnostic line, an all-unavailable
\* record, and nothing raised
OuterExcept(tk, e) ==
    [raised |-> FALSE,
     line |-> <<"  ", tk, " data collection failed: ",
                SubSeq(e, 1, IF Len(e) < DiagLimit THEN Len(e) ELSE DiagLimit), "...">>,
     data |-> Record("N/A", PyNone, PyNone, NA, NA)]

(***************************************************************************)
(* The state.  pc is the place of the single thread of control; sector and *)
(* i count the sectors and the tickers of the sector begun so far.  The    *)
(* locals of get_stock_data and main's stock_data and result are unbound   *)
(* outside their lifetime.  calls, printed, sleeps and diag observe what   *)
(* the run did: the tickers get_stock_data was called with, the tickers    *)
(* whose summary was printed, the number of time.sleep(0.5) calls, and the *)
(* diagnostic lines the current ticker's fetch printed.  attempts lists,   *)
(* for the current fetch, the price paths tried and the values the         *)
(* provider offered on each; threw tells whether the last provider access  *)
(* raised, and exc is the exception the outer handler caught for the       *)
(* current ticker, if any.                                                 *)
(***************************************************************************)
Unbound == [k |-> "unbound", v |-> 0]
NoText == <<>>
NoData == [unbound |-> TRUE]
NoExc == [raised |-> FALSE, msg |-> <<>>]

Tickers(s) == SECTOR_TICKERS[s].tickers

GsdPcs == {"gsd_ctor", "gsd_name", "gsd_price1", "gsd_price2", "gsd_price3",
           "gsd_high1", "gsd_high2", "gsd_drop", "gsd_daily", "gsd_except", "gsd_return"}

Init ==
    /\ pc = "start"
    /\ sector = 0
    /\ i = 0
    /\ ticker = ""
    /\ total_tickers = 0
    /\ current_ticker_count = 0
    /\ stock_name = "" /\ current_price = Unbound /\ year_high = Unbound
    /\ drop_rate = NoText /\ daily_change = NoText
    /\ stock_data = NoData
    /\ result = <<>>
    /\ calls = <<>> /\ printed = <<>> /\ sleeps = 0
    /\ diag = <<>> /\ attempts = <<>> /\ threw = FALSE /\ exc = NoExc

mainVars == <<sector, i, ticker, total_tickers, current_ticker_count, stock_data, result,
              calls, printed, sleeps>>
loopVars == <<sector, i, ticker, total_tickers, current_ticker_count>>

\* lines 234-237
MainStart ==
    /\ pc = "start"
    /\ total_tickers' = SumLen(Len(SECTOR_TICKERS))
    /\ current_ticker_count' = 0
    /\ pc' = "sector_loop"
    /\ UNCHANGED <<sector, i, ticker, stock_name, current_price, year_high, drop_rate,
                   daily_change, stock_data, result, calls, printed, sleeps, diag,
                   attempts, threw, exc>>

\* line 239 (and 241-243, 265): the next sector's header, or the closing line
SectorLoop ==
    /\ pc = "sector_loop"
    /\ IF sector < Len(SECTOR_TICKERS)
       THEN sector' = sector + 1 /\ i' = 0 /\ pc' = "ticker_loop"
       ELSE pc' = "done" /\ UNCHANGED <<sector, i>>
    /\ UNCHANGED <<ticker, total_tickers, current_ticker_count, stock_name, current_price,
                   year_high, drop_rate, daily_change, stock_data, result, calls, printed,
                   sleeps, diag, attempts, threw, exc>>

\* lines 245-249 (and 263): the next ticker of the sector is counted and
\* get_stock_data is entered, or the sector ends
TickerLoop ==
    /\ pc = "ticker_loop"
    /\ IF i < Len(Tickers(sector))
       THEN /\ i' = i + 1
            /\ ticker' = Tickers(sector)[i + 1]
            /\ current_ticker_count' = current_ticker_count + 1
            /\ calls' = Append(calls, Tickers(sector)[i + 1])
            /\ pc' = "gsd_ctor"
       ELSE /\ pc' = "sector_loop"
            /\ UNCHANGED <<i, ticker, current_ticker_count, calls>>
    /\ UNCHANGED <<sector, total_tickers, stock_name, current_price, year_high, drop_rate,
                   daily_change, stock_data, result, printed, sleeps, diag, attempts,
                   threw, exc>>

\* where an exception that leaves a path's try block lands: in the outer handler
Propagate ==
    /\ pc' = "gsd_except"
    /\ exc' = [raised |-> TRUE, msg |-> <<>>]
    /\ UNCHANGED <<stock_name, current_price, year_high, drop_rate, daily_change, attempts>>

\* line 56: yf.Ticker(ticker) returns a handle or raises
Ctor ==
    /\ pc = "gsd_ctor"
    /\ \/ /\ pc' = "gsd_name" /\ threw' = FALSE /\ exc' = exc
       \/ \E e \in ErrMsgs : pc' = "gsd_except" /\ threw' = TRUE /\ exc' = [raised |-> TRUE, msg |-> e]
    /\ UNCHANGED <<mainVars, stock_name, current_price, year_high, drop_rate,
                   daily_change, diag, attempts>>

\* lines 59-67
Name ==
    /\ pc = "gsd_name"
    /\ \E resp \in NameResps :
        LET r == NamePath(resp) IN
        /\ threw' = (resp = Throw)
        /\ IF r.raised THEN Propagate
           ELSE /\ stock_name' = r.val
                /\ pc' = "gsd_price1"
                /\ UNCHANGED <<current_price, year_high, drop_rate, daily_change,
                               attempts, exc>>
    /\ UNCHANGED <<mainVars, diag>>

\* the values a response offers as the price
Offered(resp) ==
    CASE resp.k \in {"val", "close"} -> <<resp.v>>
      [] resp.k = "dict" -> <<resp.currentPrice, resp.regularMarketPrice>>
      [] OTHER -> <<>>

\* lines 82, 91, 102: a later price path is entered only while the price is None
AfterPrice(price, nextPath) == IF price = PyNone THEN nextPath ELSE "gsd_high1"

\* lines 70-79
Price1 ==
    /\ pc = "gsd_price1"
    /\ \E resp \in FastPriceResps :
        LET r == PricePath1(resp) IN
        /\ threw' = (resp = Throw)
        /\ IF r.raised THEN Propagate
           ELSE /\ current_price' = r.val
                /\ attempts' = Append(attempts, [path |-> 1, vals |-> Offered(resp)])
                /\ pc' = AfterPrice(r.val, "gsd_price2")
                /\ UNCHANGED <<stock_name, year_high, drop_rate, daily_change, exc>>
    /\ UNCHANGED <<mainVars, diag>>

\* lines 82-88
Price2 ==
    /\ pc = "gsd_price2"
    /\ \E resp \in HistResps :
        LET r == PricePath2(resp) IN
        /\ threw' = (resp = Throw)
        /\ IF r.raised THEN Propagate
           ELSE /\ current_price' = r.val
                /\ attempts' = Append(attempts, [path |-> 2, vals |-> Offered(resp)])
                /\ pc' = AfterPrice(r.val, "gsd_price3")
                /\ UNCHANGED <<stock_name, year_high, drop_rate, daily_change, exc>>
    /\ UNCHANGED <<mainVars, diag>>

\* lines 91-99
Price3 ==
    /\ pc = "gsd_price3"
    /\ \E resp \in InfoPriceResps :
        LET r == PricePath3(resp) IN
        /\ threw' = (resp = Throw)
        /\ IF r.raised THEN Propagate
           ELSE /\ current_price' = r.val
                /\ attempts' = Append(attempts, [path |-> 3, vals |-> Offered(resp)])
                /\ pc' = "gsd_high1"
                /\ UNCHANGED <<stock_name, year_high, drop_rate, daily_change, exc>>
    /\ UNCHANGED <<mainVars, diag>>

\* lines 102-111 (and 114: the second path is entered only while the high is None)
High1 ==
    /\ pc = "gsd_high1"
    /\ \E resp \in FastHighResps :
        LET r == HighPath1(resp) IN
        /\ threw' = (resp = Throw)
        /\ IF r.raised THEN Propagate
           ELSE /\ year_high' = r.val
                /\ pc' = IF r.val = PyNone THEN "gsd_high2" ELSE "gsd_drop"
                /\ UNCHANGED <<stock_name, current_price, drop_rate, daily_change,
                               attempts, exc>>
    /\ UNCHANGED <<mainVars, diag>>

\* lines 114-122
High2 ==
    /\ pc = "gsd_high2"
    /\ \E resp \in InfoHighResps :
        LET r == HighPath2(resp) IN
        /\ threw' = (resp = Throw)
        /\ IF r.raised THEN Propagate
           ELSE /\ year_high' = r.val
                /\ pc' = "gsd_drop"
                /\ UNCHANGED <<stock_name, current_price, drop_rate, daily_change,
                               attempts, exc>>
    /\ UNCHANGED <<mainVars, diag>>

\* lines 125-132
Drop ==
    /\ pc = "gsd_drop"
    /\ drop_rate' = DropRate(current_price, year_high)
    /\ pc' = "gsd_daily"
    /\ UNCHANGED <<mainVars, stock_name, current_price, year_high, daily_change, diag,
                   attempts, threw, exc>>

\* lines 135-143
Daily ==
    /\ pc = "gsd_daily"
    /\ \E resp \in InfoChangeResps :
        LET r == DailyPath(resp) IN
        /\ threw' = (resp = Throw)
        /\ IF r.raised THEN Propagate
           ELSE /\ daily_change' = r.val
                /\ pc' = "gsd_return"
                /\ UNCHANGED <<stock_name, current_price, year_high, drop_rate,
                               attempts, exc>>
    /\ UNCHANGED <<mainVars, diag>>

\* the locals die with the call
LocalsDie ==
    /\ stock_name' = "" /\ current_price' = Unbound /\ year_high' = Unbound
    /\ drop_rate' = NoText /\ daily_change' = NoText
    /\ attempts' = <<>>

\* lines 145-151 (and 249: main binds stock_data)
Return ==
    /\ pc = "gsd_return"
    /\ stock_data' = Record(stock_name, current_price, year_high, drop_rate, daily_change)
    /\ pc' = "format"
    /\ LocalsDie
    /\ UNCHANGED <<loopVars, result, calls, printed, sleeps, diag, threw, exc>>

\* lines 153-161 (and 249): the handler prints and returns, or raises to main
Except ==
    /\ pc = "gsd_except"
    /\ LET h == OuterExcept(ticker, exc.msg) IN
        IF h.raised
        THEN pc' = "raised" /\ UNCHANGED <<stock_data, diag>>
        ELSE /\ diag' = Append(diag, h.line)
             /\ stock_data' = h.data
             /\ pc' = "format"
    /\ LocalsDie
    /\ UNCHANGED <<loopVars, result, calls, printed, sleeps, threw, exc>>

(***************************************************************************)
(* format_stock_summary.                                                   *)
(***************************************************************************)
Purple == <<"ESC[95m">>
Red == <<"ESC[91m">>
Blue == <<"ESC[94m">>
reset_code == <<"ESC[0m">>
NoColor == <<>>

\* the drawdown colour with "> 10" for ">= 10"
get_drop_color_code_strict(drop_rate_str) ==
    IF drop_rate_str = NA \/ drop_rate_str = DefaultDrop THEN Caught(NoColor)
    ELSE LET rate_num == PyFloat(Remove(Remove(drop_rate_str, "-"), "%"))
         IN  IF rate_num.ok /\ rate_num.mant > 10 * Pow10(rate_num.scale)
             THEN Caught(Purple)
             ELSE Caught(NoColor)

\* lines 187-200; a ValueError of float() is caught and gives no colour
get_drop_color_code(drop_rate_str) ==
    IF drop_rate_str = NA \/ drop_rate_str = DefaultDrop THEN Caught(NoColor)
    ELSE LET rate_num == PyFloat(Remove(Remove(drop_rate_str, "-"), "%"))
         IN  IF rate_num.ok /\ rate_num.mant >= 10 * Pow10(rate_num.scale)
             THEN Caught(Purple)
             ELSE Caught(NoColor)

\* the daily colour with "<= 0" for "< 0"
get_daily_color_code_nonpositive(daily_change_str) ==
    IF daily_change_str = NA \/ daily_change_str = DefaultDaily THEN Caught(Blue)
    ELSE LET rate_num == PyFloat(Remove(daily_change_str, "%"))
         IN  IF rate_num.ok /\ (rate_num.neg \/ rate_num.mant = 0)
             THEN Caught(Red)
             ELSE Caught(Blue)

\* lines 203-216; a ValueError of float() is caught and gives blue
get_daily_color_code(daily_change_str) ==
    IF daily_change_str = NA \/ daily_change_str = DefaultDaily THEN Caught(Blue)
    ELSE LET rate_num == PyFloat(Remove(daily_change_str, "%"))
         IN  IF rate_num.ok /\ rate_num.neg /\ rate_num.mant > 0
             THEN Caught(Red)
             ELSE Caught(Blue)

\* a missing amount shown with the format of a present one
MoneyStrZeroFormatted(x) ==
    IF x # PyNone THEN <<"$">> \o Fixed2(x) ELSE <<"$", "0", ".", "0", "0">>

\* line 181 and line 182
MoneyStr(x) == IF x # PyNone THEN <<"$">> \o Fixed2(x) ELSE <<"$", "0">>

\* line 183
DropStr(drop) == IF drop # NA THEN drop ELSE DefaultDrop

\* line 184
DailyStr(daily) == IF daily # NA THEN daily ELSE DefaultDaily

\* line 222
ColoredDrop(code, drop_str) ==
    IF code # NoColor THEN code \o drop_str \o reset_code ELSE drop_str

\* line 223
ColoredDaily(code, daily_str) == code \o daily_str \o reset_code

\* lines 175-229: the header and the four labelled lines
format_stock_summary(data, tk) ==
    LET drop_str == DropStr(data.drop_rate)
        daily_str == DailyStr(data.daily_change)
        drop_color_code == get_drop_color_code(drop_str)
        daily_color_code == get_daily_color_code(daily_str)
    IN  IF drop_color_code.raised \/ daily_color_code.raised THEN Escaped(<<>>)
        ELSE Caught(<< <<"=== ", tk, "(", data.stock_name, ") ===">>,
                       <<"Current price : ">> \o MoneyStr(data.current_price),
                       <<"52-week high : ">> \o MoneyStr(data.year_high),
                       <<"Drop from high : ">> \o ColoredDrop(drop_color_code.val, drop_str),
                       <<"Daily change : ">> \o ColoredDaily(daily_color_code.val, daily_str) >>)

\* line 252
Format ==
    /\ pc = "format"
    /\ LET f == format_stock_summary(stock_data, ticker) IN
        IF f.raised THEN pc' = "raised" /\ result' = result
        ELSE pc' = "print" /\ result' = f.val
    /\ UNCHANGED <<loopVars, stock_name, current_price, year_high, drop_rate, daily_change,
                   stock_data, calls, printed, sleeps, diag, attempts, threw, exc>>

\* lines 253-257: the summary, and a separator unless the ticker ends its sector
PrintSummary ==
    /\ pc = "print"
    /\ printed' = Append(printed, ticker)
    /\ pc' = "delay"
    /\ UNCHANGED <<loopVars, stock_name, current_price, year_high, drop_rate, daily_change,
                   stock_data, result, calls, sleeps, diag, attempts, threw, exc>>

\* the delay skipped after the last ticker of each sector
DelayDueWithinSector(count, total, idx, len) == idx < len

\* line 260
DelayDue(count, total, idx, len) == count < total

\* lines 260-261; stock_data and result are rebound before main reads them
\* again, so they are dropped here, and the observers of the ticker with them
Delay ==
    /\ pc = "delay"
    /\ sleeps' = IF DelayDue(current_ticker_count, total_tickers, i, Len(Tickers(sector)))
                 THEN sleeps + 1 ELSE sleeps
    /\ stock_data' = NoData /\ result' = <<>>
    /\ diag' = <<>> /\ threw' = FALSE /\ exc' = NoExc
    /\ pc' = "ticker_loop"
    /\ UNCHANGED <<loopVars, stock_name, current_price, year_high, drop_rate, daily_change,
                   calls, printed, attempts>>

Next ==
    \/ MainStart \/ SectorLoop \/ TickerLoop
    \/ Ctor \/ Name \/ Price1 \/ Price2 \/ Price3 \/ High1 \/ High2 \/ Drop \/ Daily
    \/ Return \/ Except
    \/ Format \/ PrintSummary \/ Delay

Spec == Init /\ [][Next]_vars

(***************************************************************************)
(* The formatter on its own: format_stock_summary applied once to a record *)
(* whose daily change is any text over a small alphabet, well formed or    *)
(* not, next to the texts get_stock_data produces.                         *)
(***************************************************************************)
\* the longest arbitrary text
MaxStrLen == 4

Alphabet == {"-", "0", "5", ".", "%", "N"}
Texts == UNION {[1..n -> Alphabet] : n \in 0..MaxStrLen}
DailyTexts == Texts \cup {NA, DefaultDaily} \cup
    {FloatStr(Round2(c, 1000)) \o <<"%">> : c \in Changes}
DropTexts == {NA, <<"-", "2", "5", ".", "0", "%">>}
FormatInputs ==
    {Record("Apple Inc.", m[1], m[2], d, t) :
        m \in {<<PyNone, PyNone>>, <<PyNum(15000), PyNum(20000)>>},
        d \in DropTexts, t \in DailyTexts}

InitFormat ==
    /\ pc = "format"
    /\ sector = 1
    /\ i = 1
    /\ ticker = Tickers(1)[1]
    /\ total_tickers = SumLen(Len(SECTOR_TICKERS))
    /\ current_ticker_count = 1
    /\ stock_name = "" /\ current_price = Unbound /\ year_high = Unbound
    /\ drop_rate = NoText /\ daily_change = NoText
    /\ stock_data \in FormatInputs
    /\ result = <<>>
    /\ calls = <<Tickers(1)[1]>> /\ printed = <<>> /\ sleeps = 0
    /\ diag = <<>> /\ attempts = <<>> /\ threw = FALSE /\ exc = NoExc

NextFormat == Format

SpecFormat == InitFormat /\ [][NextFormat]_vars

(***************************************************************************)
(* Properties.                                                             *)
(***************************************************************************)
Fields == {"stock_name", "current_price", "year_high", "drop_rate", "daily_change"}

\* main holds the record get_stock_data returned
Returned == pc \in {"format", "print", "delay"}

RECURSIVE Flatten(_)
Flatten(n) == IF n = 0 THEN <<>> ELSE Flatten(n - 1) \o Tickers(n)
AllTickers == Flatten(Len(SECTOR_TICKERS))

IsPrefix(a, b) == Len(a) <= Len(b) /\ a = SubSeq(b, 1, Len(a))

AllUnavailable == Record("N/A", PyNone, PyNone, NA, NA)

\* C1: get_stock_data never raises to main, whatever the provider does (the
\* handle construction or any access raising, or handing back None, NaN,
\* nothing or partial data): main always receives a record of exactly the
\* five fields stock_name, current_price, year_high, drop_rate, daily_change.
C1_NeverRaises ==
    /\ pc # "raised"
    /\ Returned => DOMAIN stock_data = Fields

\* a record came back although the last access (the daily change) raised
C1_Witness ==
    pc = "format" /\ threw /\ ~exc.raised /\ DOMAIN stock_data = Fields

\* C2: the run calls get_stock_data once per ticker in declared order,
\* whatever fails; a ticker is fetched, formatted and printed before the next
\* is fetched; a delay follows every ticker but the very last one, N-1 in all.
C2_SequentialRun ==
    /\ IsPrefix(calls, AllTickers)
    /\ IsPrefix(printed, calls)
    /\ pc \in GsdPcs \cup {"format", "print"} =>
          Len(printed) = Len(calls) - 1 /\ sleeps = Len(calls) - 1
    /\ pc = "print" => result = format_stock_summary(stock_data, ticker).val
    /\ pc = "delay" => printed = calls /\ sleeps = Len(calls) - 1
    /\ pc \in {"start", "sector_loop", "ticker_loop", "done"} =>
          /\ printed = calls
          /\ sleeps = IF Len(calls) < Len(AllTickers) THEN Len(calls)
                      ELSE Len(AllTickers) - 1
    /\ pc = "done" => calls = AllTickers /\ sleeps = Len(AllTickers) - 1

\* the first sector is through and a delay followed its last ticker
C2_Witness ==
    /\ pc = "sector_loop" /\ sector = 1
    /\ calls = Tickers(1) /\ printed = Tickers(1) /\ sleeps = Len(Tickers(1))

\* C7: when the outer handler is reached the record is all-unavailable, one
\* diagnostic line with the first DiagLimit characters of the error at most
\* is printed, the ticker is not fetched again, and main goes on to format
\* and print it and to the next ticker; a fetch in which only paths fail
\* prints no diagnostic line.
C7_TotalFailure ==
    /\ pc # "raised"
    /\ Len(diag) = IF Returned /\ exc.raised THEN 1 ELSE 0
    /\ Returned /\ exc.raised =>
          /\ stock_data = AllUnavailable
          /\ Len(diag[1][4]) <= DiagLimit
          /\ IsPrefix(diag[1][4], exc.msg)
          /\ Len(diag[1][4]) = DiagLimit \/ diag[1][4] = exc.msg
          /\ Cardinality({j \in 1..Len(calls) : calls[j] = ticker}) = 1
          /\ pc \in {"print", "delay"} =>
                result = format_stock_summary(AllUnavailable, ticker).val
          /\ pc = "delay" => printed[Len(printed)] = ticker
          /\ ENABLED Next

\* the handler has cut an error message longer than DiagLimit, and the
\* all-unavailable record has been printed
C7_Witness ==
    /\ pc = "delay" /\ exc.raised /\ Len(exc.msg) > DiagLimit
    /\ Len(diag) = 1 /\ Len(diag[1][4]) = DiagLimit
    /\ printed[Len(printed)] = ticker

\* a number that is neither None nor NaN
IsNumber(x) == x.k = "num"

\* the first number among the values a path was offered, None if there is none
RECURSIVE FirstNumber(_)
FirstNumber(vals) ==
    IF vals = <<>> THEN PyNone
    ELSE IF IsNumber(vals[1]) THEN vals[1] ELSE FirstNumber(Tail(vals))

\* the price paths have all had their turn
PriceSettled == pc \in {"gsd_high1", "gsd_high2", "gsd_drop", "gsd_daily", "gsd_return"}

\* C3: the price is the number of the first path, in the order fast_info,
\* history, info, that offers a non-null, non-NaN number; a later path is
\* tried only when every earlier one offered none; the price is absent only
\* when no path offers one, and is never NaN.
C3_FirstNumberWins ==
    PriceSettled =>
        LET n == Len(attempts) IN
        /\ n \in 1..3
        /\ \A j \in 1..n : attempts[j].path = j
        /\ \A j \in 1..(n - 1) : FirstNumber(attempts[j].vals) = PyNone
        /\ current_price = FirstNumber(attempts[n].vals)
        /\ current_price = PyNone => n = 3
        /\ current_price.k # "nan"

\* C4: a path that raises leaves the fetch where the same path handing back
\* nothing leaves it: the field keeps its default, the next path of the field
\* (or the next field) is entered and no other field changes; the outer
\* handler is entered from the handle construction alone.
C4_PathsIsolated ==
    [][/\ pc' = "gsd_except" => pc = "gsd_ctor"
       /\ threw' /\ pc = "gsd_name" =>
             /\ pc' = "gsd_price1" /\ stock_name' = NamePath(NoInfo).val
             /\ UNCHANGED <<current_price, year_high, drop_rate, daily_change>>
       /\ threw' /\ pc = "gsd_price1" =>
             /\ pc' = "gsd_price2" /\ current_price' = PricePath1(NoAttr).val
             /\ UNCHANGED <<stock_name, year_high, drop_rate, daily_change>>
       /\ threw' /\ pc = "gsd_price2" =>
             /\ pc' = "gsd_price3" /\ current_price' = PricePath2(EmptyHist).val
             /\ UNCHANGED <<stock_name, year_high, drop_rate, daily_change>>
       /\ threw' /\ pc = "gsd_price3" =>
             /\ pc' = "gsd_high1" /\ current_price' = PricePath3(NoInfo).val
             /\ UNCHANGED <<stock_name, year_high, drop_rate, daily_change>>
       /\ threw' /\ pc = "gsd_high1" =>
             /\ pc' = "gsd_high2" /\ year_high' = HighPath1(NoAttr).val
             /\ UNCHANGED <<stock_name, current_price, drop_rate, daily_change>>
       /\ threw' /\ pc = "gsd_high2" =>
             /\ pc' = "gsd_drop" /\ year_high' = HighPath2(NoInfo).val
             /\ UNCHANGED <<stock_name, current_price, drop_rate, daily_change>>
       /\ threw' /\ pc = "gsd_daily" =>
             /\ pc' = "gsd_return" /\ daily_change' = DailyPath(NoInfo).val
             /\ UNCHANGED <<stock_name, current_price, year_high, drop_rate>>
      ]_vars

\* the fast_info price access raised and the history path is up next, the
\* name found before kept
C4_Witness ==
    pc = "gsd_price2" /\ threw /\ stock_name = "Apple Inc." /\ current_price = PyNone

\* the drawdown string of a price and a positive high
Drawdown(price, high) ==
    <<"-">> \o FloatStr(Round2((high.v - price.v) * 100, high.v)) \o <<"%">>

\* C5: a returned record with current_price and year_high present and
\* year_high > 0 has the drop_rate "-" round((year_high - current_price) /
\* year_high * 100, 2) "%", never "N/A".
C5_DrawdownComputed ==
    (/\ Returned
     /\ stock_data.current_price # PyNone
     /\ stock_data.year_high # PyNone
     /\ stock_data.year_high.v > 0) =>
        /\ stock_data.drop_rate # NA
        /\ stock_data.drop_rate = Drawdown(stock_data.current_price, stock_data.year_high)

\* C6: drop_rate differs from "N/A" only if current_price is present and
\* year_high is present and positive; otherwise it is "N/A" and the drawdown
\* line of the summary is the literal "-0.00%".
C6_DrawdownOnlyWithPositiveHigh ==
    Returned =>
        LET price == stock_data.current_price
            high == stock_data.year_high
            known == price # PyNone /\ high # PyNone /\ IsNumber(high) /\ high.v > 0
        IN  /\ stock_data.drop_rate # NA => known
            /\ ~known => stock_data.drop_rate = NA
            /\ ~known /\ pc \in {"print", "delay"} =>
                  result[4] = <<"Drop from high : ">> \o DefaultDrop

\* a price and a negative year high: no drawdown, and the default is shown
C6_Witness ==
    /\ pc = "print"
    /\ IsNumber(stock_data.current_price) /\ stock_data.current_price.v > 0
    /\ IsNumber(stock_data.year_high) /\ stock_data.year_high.v < 0
    /\ stock_data.drop_rate = NA
    /\ result[4] = <<"Drop from high : ", "-", "0", ".", "0", "0", "%">>

\* the summary has been formatted
Formatted == pc \in {"print", "delay"}

\* C8: the drawdown is wrapped in the highlight colour and the reset exactly
\* when the absolute value of its rounded percentage is >= 10, and is left
\* bare below 10; the default "-0.00%" of a missing drawdown is left bare.
C8_DrawdownHighlight ==
    Formatted =>
        LET drop == stock_data.drop_rate
            label == <<"Drop from high : ">>
        IN  IF drop = NA THEN result[4] = label \o DefaultDrop
            ELSE IF Round2((stock_data.year_high.v - stock_data.current_price.v) * 100,
                           stock_data.year_high.v).mag >= 1000
                 THEN result[4] = label \o Purple \o drop \o reset_code
                 ELSE result[4] = label \o drop

\* a price more than 10% above the year high: two minus signs, highlighted
C8_Witness ==
    /\ pc = "print"
    /\ stock_data.current_price = PyNum(23000) /\ stock_data.year_high = PyNum(20000)
    /\ result[4] = <<"Drop from high : ", "ESC[95m", "-", "-", "1", "5", ".", "0", "%",
                     "ESC[0m">>

\* a text that reads as a number below zero: a minus sign, then digits with at
\* most one dot, one digit at least not 0
NegativeNumeral(t) ==
    /\ Len(t) >= 2
    /\ t[1] = "-"
    /\ \A q \in 2..Len(t) : t[q] \in DigitSet \cup {"."}
    /\ Cardinality({q \in 2..Len(t) : t[q] = "."}) <= 1
    /\ \E q \in 2..Len(t) : t[q] \in DigitSet \ {"0"}

\* C9: the daily change is always wrapped in one of two colours and the
\* reset: red exactly when its text (the "%" dropped) reads as a number below
\* zero, blue for zero, a positive number, "N/A" (shown as "0.00%") and any
\* text that is no number; the formatter never raises.
C9_DailyColour ==
    /\ pc # "raised"
    /\ Formatted =>
          LET daily_str == IF stock_data.daily_change = NA THEN DefaultDaily
                           ELSE stock_data.daily_change
          IN  result[5] = <<"Daily change : ">> \o
                          (IF NegativeNumeral(Remove(daily_str, "%")) THEN Red ELSE Blue) \o
                          daily_str \o reset_code

\* "-3.2%" comes out red
C9_Witness ==
    /\ pc = "print"
    /\ stock_data.daily_change = <<"-", "3", ".", "2", "%">>
    /\ result[5] = <<"Daily change : ", "ESC[91m", "-", "3", ".", "2", "%", "ESC[0m">>

\* C10: the summary is the header "=== TICKER(NAME) ===" and four lines in
\* the order price, year high, drawdown, daily change, whichever fields are
\* unavailable; an unavailable field shows "$0", "$0", a bare "-0.00%" and a
\* blue "0.00%".
C10_SummaryLayout ==
    Formatted =>
        /\ Len(result) = 5
        /\ result[1] = <<"=== ", ticker, "(", stock_data.stock_name, ") ===">>
        /\ <<result[2][1], result[3][1], result[4][1], result[5][1]>> =
              <<"Current price : ", "52-week high : ", "Drop from high : ", "Daily change : ">>
        /\ stock_data.current_price = PyNone => result[2] = <<"Current price : ", "$", "0">>
        /\ stock_data.current_price # PyNone =>
              result[2] = <<"Current price : ", "$">> \o Fixed2(stock_data.current_price)
        /\ stock_data.year_high = PyNone => result[3] = <<"52-week high : ", "$", "0">>
        /\ stock_data.year_high # PyNone =>
              result[3] = <<"52-week high : ", "$">> \o Fixed2(stock_data.year_high)
        /\ stock_data.drop_rate = NA =>
              result[4] = <<"Drop from high : ", "-", "0", ".", "0", "0", "%">>
        /\ stock_data.daily_change = NA =>
              result[5] = <<"Daily change : ", "ESC[94m", "0", ".", "0", "0", "%", "ESC[0m">>

\* every path came back empty-handed: the record is all-unavailable without
\* the outer handler, and the summary shows the four defaults
C10_Witness ==
    /\ pc = "print" /\ ~exc.raised
    /\ stock_data = AllUnavailable
    /\ result = << <<"=== ", ticker, "(", "N/A", ") ===">>,
                   <<"Current price : ", "$", "0">>,
                   <<"52-week high : ", "$", "0">>,
                   <<"Drop from high : ", "-", "0", ".", "0", "0", "%">>,
                   <<"Daily change : ", "ESC[94m", "0", ".", "0", "0", "%", "ESC[0m">> >>

====
